---- MODULE Spec2Model ----
(***************************************************************************)
(* CV-builder (src/app.py): the Content Enhancer (enhance_with_groq), the  *)
(* Document Assembler (create_cv_document) and the form handlers of main.  *)
(*                                                                         *)
(* A text is a sequence of characters, so that str.strip() and truthiness  *)
(* are computed rather than assumed.  A document is the sequence of the    *)
(* paragraphs python-docx appends to it.  The external service's answers   *)
(* are inputs of the operations.                                           *)
(***************************************************************************)
EXTENDS Naturals, Sequences, FiniteSets

VARIABLES
    op,               \* the operation that just ran, "idle" between operations
    num_experiences,  \* st.session_state.num_experiences
    num_education,    \* st.session_state.num_education
    cv_data,          \* the record handed to create_cv_document
    enhance_with_ai,  \* the enhancement switch
    groq_api_key,     \* the credential
    text,             \* enhance_with_groq's text argument
    section_type,     \* enhance_with_groq's section kind
    responses,        \* the service's answers, in the order they are served
    doc,              \* the paragraphs of the document produced
    result,           \* enhance_with_groq's return value
    calls,            \* enhance_with_groq invocations, in order
    requests,         \* requests.post calls issued, in order
    raised,           \* an exception left the operation
    invoked,          \* create_cv_document was invoked
    message           \* what main showed the user

vars == <<op, num_experiences, num_education, cv_data, enhance_with_ai,
          groq_api_key, text, section_type, responses, doc, result, calls,
          requests, raised, invoked, message>>

----------------------------------------------------------------------------
(* Bounds of the model *)

\* most experience (education) entries of one record
MaxEntries == 2

----------------------------------------------------------------------------
(* Texts *)

RECURSIVE SeqsUpTo(_, _)
SeqsUpTo(S, n) ==
    IF n = 0 THEN {<<>>}
    ELSE LET shorter == SeqsUpTo(S, n - 1)
         IN shorter \cup {Append(s, c) : s \in shorter, c \in S}

Word == <<"a">>
OtherWord == <<"b">>

\* The texts of a free-text field, up to what strip() and truthiness tell apart:
\* empty, whitespace-only, a word, a padded word.
Texts == {<<>>, <<" ">>, Word, <<" ", "a", " ">>}

\* Python truthiness of a str
Truthy(s) == s # <<>>

RECURSIVE LStrip(_)
LStrip(s) == IF s # <<>> /\ Head(s) = " " THEN LStrip(Tail(s)) ELSE s

RECURSIVE RStrip(_)
RStrip(s) ==
    IF s # <<>> /\ s[Len(s)] = " " THEN RStrip(SubSeq(s, 1, Len(s) - 1)) ELSE s

\* str.strip()
Strip(s) == RStrip(LStrip(s))

\* The credential is never inspected beyond its truthiness: None, '', or a key.
Keys == {"None", "", "k"}
KeyTruthy(k) == k \notin {"None", ""}

----------------------------------------------------------------------------
(* The external text-generation service *)

OkResponse(content) ==
    [outcome |-> "response", status |-> 200, payload |-> "choices", content |-> content]
MalformedResponse ==
    [outcome |-> "response", status |-> 200, payload |-> "malformed", content |-> <<>>]
StatusResponse(code) ==
    [outcome |-> "response", status |-> code, payload |-> "error", content |-> <<>>]
ExceptionResponse(e) ==
    [outcome |-> e, status |-> 0, payload |-> "none", content |-> <<>>]

Generated == <<" ", "c", " ">>

Responses ==
    { OkResponse(Generated), OkResponse(<<" ">>), MalformedResponse,
      StatusResponse(401), StatusResponse(500),
      ExceptionResponse("ConnectionError"), ExceptionResponse("Timeout") }

Failed(r) == r.outcome # "response" \/ r.status # 200 \/ r.payload # "choices"

SectionKinds == {"profile", "experience", "education", "skills", "activities"}

\* prompts.get(section_type, <generic template>)
Prompt(t, kind) ==
    [template |-> IF kind \in SectionKinds THEN kind ELSE "generic", text |-> t]

Request(t, kind, key) ==
    [prompt |-> Prompt(t, kind), bearer |-> key, timeout |-> 30]

\* The body of the try block: it returns a value or raises.
EnhanceRequest(t, kind, key, resp) ==
    IF resp.outcome # "response"
    THEN \* requests.post raises
         [exc |-> resp.outcome, ret |-> <<>>, warned |-> FALSE]
    ELSE IF resp.status = 200
         THEN IF resp.payload = "choices"
              THEN [exc |-> "none", ret |-> Strip(resp.content), warned |-> FALSE]
              ELSE \* response.json() or the subscripts raise
                   [exc |-> "KeyError", ret |-> <<>>, warned |-> FALSE]
         ELSE [exc |-> "none", ret |-> t, warned |-> TRUE]

RequestExceptions == {"ConnectionError", "Timeout"}

EnhanceExceptRequestErrorsOnly(t, r) ==
    IF r.exc = "none"
    THEN [ret |-> r.ret, raised |-> FALSE, warned |-> r.warned]
    ELSE IF r.exc \in RequestExceptions
         THEN [ret |-> t, raised |-> FALSE, warned |-> TRUE]
         ELSE [ret |-> <<>>, raised |-> TRUE, warned |-> FALSE]

\* except Exception as e: st.warning(...); return text
EnhanceExcept(t, r) ==
    IF r.exc = "none"
    THEN [ret |-> r.ret, raised |-> FALSE, warned |-> r.warned]
    ELSE [ret |-> t, raised |-> FALSE, warned |-> TRUE]

EnhanceGuardWithoutStrip(t, key) == ~KeyTruthy(key) \/ ~Truthy(t)

\* if not groq_api_key or not text.strip(): return text
EnhanceGuard(t, key) == ~KeyTruthy(key) \/ ~Truthy(Strip(t))

enhance_with_groq(t, kind, key, resp) ==
    IF EnhanceGuard(t, key)
    THEN [ret |-> t, raised |-> FALSE, requests |-> <<>>, warned |-> FALSE]
    ELSE LET h == EnhanceExcept(t, EnhanceRequest(t, kind, key, resp))
         IN [ret |-> h.ret, raised |-> h.raised,
             requests |-> <<Request(t, kind, key)>>, warned |-> h.warned]

----------------------------------------------------------------------------
(* The document *)

Paragraph(style, title, t, bold, centered) ==
    [style |-> style, title |-> title, text |-> t, bold |-> bold,
     centered |-> centered]

\* doc.add_paragraph()
Blank == Paragraph("Normal", "", <<>>, FALSE, FALSE)
\* doc.add_paragraph(text)
Plain(t) == Paragraph("Normal", "", t, FALSE, FALSE)
\* doc.add_paragraph() with one bold run
Bold(t) == Paragraph("Normal", "", t, TRUE, FALSE)
\* doc.add_paragraph(text) restyled 'List Bullet'
Bullet(t) == Paragraph("List Bullet", "", t, FALSE, FALSE)
\* the centered bold name paragraph
Title(t) == Paragraph("Normal", "", t, TRUE, TRUE)
\* doc.add_heading(title, level=1)
Heading(title) == Paragraph("Heading 1", title, <<>>, FALSE, FALSE)

\* f"{x} - {y}"
Dash(x, y) == x \o <<" ", "-", " ">> \o y

\* The k-th request of one invocation is served the k-th answer, cyclically.
ResponseAt(rs, k) == rs[((k - 1) % Len(rs)) + 1]

\* The assembler's progress: the document, the enhancer's log, an escaped exception.
Start == [doc |-> <<>>, calls |-> <<>>, requests |-> <<>>, raised |-> FALSE]

Emit(st, ps) == [st EXCEPT !.doc = @ \o ps]

\* if enhance_with_ai and groq_api_key: text = enhance_with_groq(text, kind, key)
Enhanced(st, t, kind, enhance, key, rs) ==
    IF enhance /\ KeyTruthy(key)
    THEN LET r == enhance_with_groq(t, kind, key, ResponseAt(rs, Len(st.requests) + 1))
         IN [text |-> r.ret,
             st |-> [st EXCEPT !.calls = Append(@, [kind |-> kind, text |-> t]),
                               !.requests = @ \o r.requests,
                               !.raised = r.raised]]
    ELSE [text |-> t, st |-> st]

\* A heading, the (possibly enhanced) text and what follows it.
TextSection(st, title, t, kind, enhance, key, rs, trailer) ==
    IF st.raised \/ ~Truthy(t) THEN st
    ELSE LET e == Enhanced(Emit(st, <<Heading(title)>>), t, kind, enhance, key, rs)
         IN IF e.st.raised THEN e.st
            ELSE Emit(e.st, <<Plain(e.text)>> \o trailer)

NameSection(st, cv) ==
    IF Truthy(cv.name) THEN Emit(st, <<Title(cv.name), Blank>>) ELSE st

ProfileSection(st, cv, enhance, key, rs) ==
    TextSection(st, "Profile", cv.profile, "profile", enhance, key, rs, <<Blank>>)

\* if exp.get('company') or exp.get('position') or exp.get('description')
ExperiencePasses(exp) ==
    Truthy(exp.company) \/ Truthy(exp.position) \/ Truthy(exp.description)

\* if edu.get('degree') or edu.get('institution') or edu.get('details')
EducationPasses(edu) ==
    Truthy(edu.degree) \/ Truthy(edu.institution) \/ Truthy(edu.details)

ExperienceEntryAlwaysEnhancing(st, exp, i, n, enhance, key, rs) ==
    IF st.raised \/ ~ExperiencePasses(exp) THEN st
    ELSE LET job == IF Truthy(exp.position) /\ Truthy(exp.company)
                    THEN <<Bold(Dash(exp.position, exp.company))>> ELSE <<>>
             duration == IF Truthy(exp.duration) THEN <<Bullet(exp.duration)>> ELSE <<>>
             s1 == Emit(st, job \o duration)
             gap == IF i < n THEN <<Blank>> ELSE <<>>
             e == Enhanced(s1, exp.description, "experience", enhance, key, rs)
         IN IF e.st.raised THEN e.st
            ELSE IF Truthy(exp.description)
                 THEN Emit(e.st, <<Plain(e.text)>> \o gap)
                 ELSE Emit(e.st, gap)

\* One iteration of the experience loop, i counted from 1.
ExperienceEntry(st, exp, i, n, enhance, key, rs) ==
    IF st.raised \/ ~ExperiencePasses(exp) THEN st
    ELSE LET job == IF Truthy(exp.position) /\ Truthy(exp.company)
                    THEN <<Bold(Dash(exp.position, exp.company))>> ELSE <<>>
             duration == IF Truthy(exp.duration) THEN <<Bullet(exp.duration)>> ELSE <<>>
             s1 == Emit(st, job \o duration)
             gap == IF i < n THEN <<Blank>> ELSE <<>>
         IN IF Truthy(exp.description)
            THEN LET e == Enhanced(s1, exp.description, "experience", enhance, key, rs)
                 IN IF e.st.raised THEN e.st
                    ELSE Emit(e.st, <<Plain(e.text)>> \o gap)
            ELSE Emit(s1, gap)

RECURSIVE ExperienceLoop(_, _, _, _, _, _)
ExperienceLoop(st, exps, i, enhance, key, rs) ==
    IF i > Len(exps) THEN st
    ELSE ExperienceLoop(ExperienceEntry(st, exps[i], i, Len(exps), enhance, key, rs),
                        exps, i + 1, enhance, key, rs)

ExperienceSection(st, cv, enhance, key, rs) ==
    IF st.raised \/ cv.experience = <<>> THEN st
    ELSE LET s == ExperienceLoop(Emit(st, <<Heading("Experience")>>),
                                 cv.experience, 1, enhance, key, rs)
         IN IF s.raised THEN s ELSE Emit(s, <<Blank>>)

\* One iteration of the education loop, i counted from 1.
EducationEntry(st, edu, i, n, enhance, key, rs) ==
    IF st.raised \/ ~EducationPasses(edu) THEN st
    ELSE LET head == IF Truthy(edu.degree) /\ Truthy(edu.institution)
                     THEN <<Bold(Dash(edu.degree, edu.institution))>> ELSE <<>>
             year == IF Truthy(edu.year) THEN <<Plain(edu.year)>> ELSE <<>>
             s1 == Emit(st, head \o year)
             gap == IF i < n THEN <<Blank>> ELSE <<>>
         IN IF Truthy(edu.details)
            THEN LET e == Enhanced(s1, edu.details, "education", enhance, key, rs)
                 IN IF e.st.raised THEN e.st
                    ELSE Emit(e.st, <<Plain(e.text)>> \o gap)
            ELSE Emit(s1, gap)

RECURSIVE EducationLoop(_, _, _, _, _, _)
EducationLoop(st, edus, i, enhance, key, rs) ==
    IF i > Len(edus) THEN st
    ELSE EducationLoop(EducationEntry(st, edus[i], i, Len(edus), enhance, key, rs),
                       edus, i + 1, enhance, key, rs)

EducationSection(st, cv, enhance, key, rs) ==
    IF st.raised \/ cv.education = <<>> THEN st
    ELSE LET s == EducationLoop(Emit(st, <<Heading("Education")>>),
                                cv.education, 1, enhance, key, rs)
         IN IF s.raised THEN s ELSE Emit(s, <<Blank>>)

SkillsSection(st, cv, enhance, key, rs) ==
    TextSection(st, "Skills & Abilities", cv.skills, "skills", enhance, key, rs,
                <<Blank>>)

ActivitiesSection(st, cv, enhance, key, rs) ==
    TextSection(st, "Activities and Interests", cv.activities, "activities",
                enhance, key, rs, <<>>)

create_cv_document_SkillsBeforeEducation(cv, enhance, key, rs) ==
    ActivitiesSection(
      EducationSection(
        SkillsSection(
          ExperienceSection(
            ProfileSection(NameSection(Start, cv), cv, enhance, key, rs),
            cv, enhance, key, rs),
          cv, enhance, key, rs),
        cv, enhance, key, rs),
      cv, enhance, key, rs)

create_cv_document(cv, enhance, key, rs) ==
    ActivitiesSection(
      SkillsSection(
        EducationSection(
          ExperienceSection(
            ProfileSection(NameSection(Start, cv), cv, enhance, key, rs),
            cv, enhance, key, rs),
          cv, enhance, key, rs),
        cv, enhance, key, rs),
      cv, enhance, key, rs)

----------------------------------------------------------------------------
(* Inputs *)

CVRecord(n, p, x, d, s, a) ==
    [name |-> n, profile |-> p, experience |-> x, education |-> d,
     skills |-> s, activities |-> a]

FieldTexts == {<<>>, Word}

ExperienceEntries ==
    {[position |-> p, company |-> c, duration |-> u, description |-> d] :
        p \in FieldTexts, c \in FieldTexts, u \in FieldTexts, d \in FieldTexts}

EducationEntries ==
    {[degree |-> g, institution |-> i, year |-> y, details |-> d] :
        g \in FieldTexts, i \in FieldTexts, y \in FieldTexts, d \in FieldTexts}

\* The entry of an untouched form group: every widget returns ''.
EmptyExperience ==
    [position |-> <<>>, company |-> <<>>, duration |-> <<>>, description |-> <<>>]
EmptyEducation ==
    [degree |-> <<>>, institution |-> <<>>, year |-> <<>>, details |-> <<>>]

FullExperience(w) ==
    [position |-> w, company |-> w, duration |-> w, description |-> w]
FullEducation(w) ==
    [degree |-> w, institution |-> w, year |-> w, details |-> w]

Words == {Word, OtherWord}

SeqsOfLen(S, n) == {s \in SeqsUpTo(S, n) : Len(s) = n}

\* Records that vary the four top-level texts, around fixed lists x and d.
TopRecords(x, d) ==
    {CVRecord(n, p, x, d, s, a) : n \in Texts, p \in Texts, s \in Texts, a \in Texts}

\* Records that vary one list, around filled required fields.
ListRecords(X, D) ==
    {CVRecord(Word, Word, x, d, Word, <<>>) : x \in X, d \in D}

\* Records that vary which sections are present, with distinguishable entries.
MixedRecords(X, D) ==
    {CVRecord(n, p, x, d, s, a) :
        n \in FieldTexts, p \in FieldTexts, s \in FieldTexts, a \in FieldTexts,
        x \in X, d \in D}

\* What a caller may hand to create_cv_document.
CVRecords ==
    TopRecords(<<>>, <<>>)
    \cup ListRecords(SeqsUpTo(ExperienceEntries, MaxEntries), {<<>>})
    \cup ListRecords({<<>>}, SeqsUpTo(EducationEntries, MaxEntries))
    \cup MixedRecords(SeqsUpTo({FullExperience(w) : w \in Words}, MaxEntries),
                      SeqsUpTo({FullEducation(w) : w \in Words}, MaxEntries))

\* What the form of main yields with ne experience and nd education groups:
\* each group is left untouched or filled in.
FormRecords(ne, nd) ==
    TopRecords([i \in 1..ne |-> EmptyExperience], [i \in 1..nd |-> EmptyEducation])
    \cup ListRecords(
            SeqsOfLen({EmptyExperience} \cup {FullExperience(w) : w \in Words}, ne),
            SeqsOfLen({EmptyEducation} \cup {FullEducation(w) : w \in Words}, nd))

DocResponses == {OkResponse(Generated), ExceptionResponse("Timeout")}

Unserved == <<StatusResponse(500)>>

\* The switch, the credential and the service's answers of one invocation.
Settings(keys) ==
    {[enhance |-> p[1], key |-> p[2], rs |-> Unserved] :
        p \in {q \in BOOLEAN \X keys : ~(q[1] /\ KeyTruthy(q[2]))}}
    \cup {[enhance |-> TRUE, key |-> k, rs |-> <<r1, r2>>] :
            k \in {k \in keys : KeyTruthy(k)}, r1 \in DocResponses, r2 \in DocResponses}

NoRecord == CVRecord(<<>>, <<>>, <<>>, <<>>, <<>>, <<>>)

----------------------------------------------------------------------------
(* Messages of main *)

NoMessage == <<>>
RequiredFieldsError ==
    <<"Please", "fill", "in", "all", "required", "fields", "marked", "with", "*">>
GenerationError == <<"Error", "generating", "CV">>
Success == <<"CV", "generated", "successfully">>

MissingRequiredIgnoringSkills(cv) == ~Truthy(cv.name) \/ ~Truthy(cv.profile)

\* if not name or not profile or not skills
MissingRequired(cv) ==
    ~Truthy(cv.name) \/ ~Truthy(cv.profile) \/ ~Truthy(cv.skills)

----------------------------------------------------------------------------
(* Operations *)

Init ==
    /\ op = "idle"
    /\ num_experiences = 1
    /\ num_education = 1
    /\ cv_data = NoRecord
    /\ enhance_with_ai = FALSE
    /\ groq_api_key = ""
    /\ text = <<>>
    /\ section_type = "profile"
    /\ responses = Unserved
    /\ doc = <<>>
    /\ result = <<>>
    /\ calls = <<>>
    /\ requests = <<>>
    /\ raised = FALSE
    /\ invoked = FALSE
    /\ message = NoMessage

session == <<num_experiences, num_education>>
enhancer == <<text, section_type, result>>
assembly == <<cv_data, enhance_with_ai, groq_api_key, responses, doc, calls,
              requests, raised, invoked, message>>

\* A direct call of enhance_with_groq.
CallEnhance ==
    /\ op = "idle"
    /\ \E t \in Texts, kind \in SectionKinds \cup {"other"}, key \in Keys,
       resp \in Responses :
        \E r \in {enhance_with_groq(t, kind, key, resp)} :
           /\ op' = "enhance"
           /\ text' = t
           /\ section_type' = kind
           /\ groq_api_key' = key
           /\ responses' = <<resp>>
           /\ result' = r.ret
           /\ requests' = r.requests
           /\ raised' = r.raised
           /\ calls' = <<[kind |-> kind, text |-> t]>>
           /\ cv_data' = NoRecord
           /\ enhance_with_ai' = FALSE
           /\ doc' = <<>>
           /\ invoked' = FALSE
           /\ message' = NoMessage
           /\ UNCHANGED session

\* A direct call of create_cv_document.
CallCreate ==
    /\ op = "idle"
    /\ \E cv \in CVRecords, s \in Settings(Keys) :
        \E r \in {create_cv_document(cv, s.enhance, s.key, s.rs)} :
           /\ op' = "create"
           /\ cv_data' = cv
           /\ enhance_with_ai' = s.enhance
           /\ groq_api_key' = s.key
           /\ responses' = s.rs
           /\ doc' = IF r.raised THEN <<>> ELSE r.doc
           /\ calls' = r.calls
           /\ requests' = r.requests
           /\ raised' = r.raised
           /\ invoked' = TRUE
           /\ message' = NoMessage
           /\ text' = <<>>
           /\ section_type' = "profile"
           /\ result' = <<>>
           /\ UNCHANGED session

\* st.session_state.num_experiences += 1
AddedExperience == num_experiences + 1

RemoveExperienceUnguarded == num_experiences - 1
\* if <button> and st.session_state.num_experiences > 1: ... -= 1
RemovedExperience ==
    IF num_experiences > 1 THEN num_experiences - 1 ELSE num_experiences

\* if <button> and st.session_state.num_education > 1: ... -= 1
RemovedEducation ==
    IF num_education > 1 THEN num_education - 1 ELSE num_education

AddExperience ==
    /\ op = "idle"
    /\ num_experiences < MaxEntries
    /\ op' = "add_experience"
    /\ num_experiences' = AddedExperience
    /\ UNCHANGED <<num_education, enhancer, assembly>>

RemoveExperience ==
    /\ op = "idle"
    /\ op' = "remove_experience"
    /\ num_experiences' = RemovedExperience
    /\ UNCHANGED <<num_education, enhancer, assembly>>

AddEducation ==
    /\ op = "idle"
    /\ num_education < MaxEntries
    /\ op' = "add_education"
    /\ num_education' = num_education + 1
    /\ UNCHANGED <<num_experiences, enhancer, assembly>>

RemoveEducation ==
    /\ op = "idle"
    /\ op' = "remove_education"
    /\ num_education' = RemovedEducation
    /\ UNCHANGED <<num_experiences, enhancer, assembly>>

\* The form's lists: one entry per group, for i in range(num_...).
FormInputs == FormRecords(num_experiences, num_education)

\* The Generate button of main.
Generate ==
    /\ op = "idle"
    /\ \E cv \in FormInputs, s \in Settings({"", "k"}) :
        /\ op' = "generate"
        /\ cv_data' = cv
        /\ enhance_with_ai' = s.enhance
        /\ groq_api_key' = s.key
        /\ responses' = s.rs
        /\ IF MissingRequired(cv)
           THEN /\ message' = RequiredFieldsError
                /\ invoked' = FALSE
                /\ doc' = <<>>
                /\ calls' = <<>>
                /\ requests' = <<>>
                /\ raised' = FALSE
           ELSE \E r \in {create_cv_document(cv, s.enhance /\ KeyTruthy(s.key),
                                               s.key, s.rs)} :
                   /\ invoked' = TRUE
                   /\ calls' = r.calls
                   /\ requests' = r.requests
                   /\ raised' = FALSE
                   /\ doc' = IF r.raised THEN <<>> ELSE r.doc
                   /\ message' = IF r.raised THEN GenerationError ELSE Success
        /\ UNCHANGED <<session, enhancer>>

\* The operation is over: its arguments and results are dropped (a call returns
\* to its caller; a script run of main ends and the next one starts afresh).
\* The session state outlives it.
Return ==
    /\ op # "idle"
    /\ op' = "idle"
    /\ cv_data' = NoRecord
    /\ enhance_with_ai' = FALSE
    /\ groq_api_key' = ""
    /\ text' = <<>>
    /\ section_type' = "profile"
    /\ responses' = Unserved
    /\ doc' = <<>>
    /\ result' = <<>>
    /\ calls' = <<>>
    /\ requests' = <<>>
    /\ raised' = FALSE
    /\ invoked' = FALSE
    /\ message' = NoMessage
    /\ UNCHANGED session

\* Callers of the two functions.
Next == CallEnhance \/ CallCreate \/ Return

Spec == Init /\ [][Next]_vars

\* A session of main.
NextUI ==
    \/ AddExperience
    \/ RemoveExperience
    \/ AddEducation
    \/ RemoveEducation
    \/ Generate
    \/ Return

SpecUI == Init /\ [][NextUI]_vars

----------------------------------------------------------------------------
(* Reading a document back *)

IsHeading(p) == p.style = "Heading 1"
IsBold(p) == p.bold /\ ~p.centered
IsBlankParagraph(p) == p = Blank

HasHeading(d, title) == \E i \in DOMAIN d : d[i] = Heading(title)

\* The titles of the headings of d, in document order.
RECURSIVE HeadingTitles(_)
HeadingTitles(d) ==
    IF d = <<>> THEN <<>>
    ELSE (IF IsHeading(Head(d)) THEN <<Head(d).title>> ELSE <<>>)
         \o HeadingTitles(Tail(d))

\* The paragraphs below the first heading `title`, up to the next heading.
SectionBody(d, title) ==
    IF ~HasHeading(d, title) THEN <<>>
    ELSE LET h == CHOOSE i \in DOMAIN d :
                    /\ d[i] = Heading(title)
                    /\ \A j \in 1..(i - 1) : d[j] # Heading(title)
             later == {j \in DOMAIN d : j > h /\ IsHeading(d[j])}
             end == IF later = {} THEN Len(d)
                    ELSE (CHOOSE j \in later : \A k \in later : j <= k) - 1
         IN SubSeq(d, h + 1, end)

Count(sq, Test(_)) == Cardinality({i \in DOMAIN sq : Test(sq[i])})

SectionOrder ==
    <<"Profile", "Experience", "Education", "Skills & Abilities",
      "Activities and Interests">>

Rank(title) == CHOOSE i \in DOMAIN SectionOrder : SectionOrder[i] = title

Enhancing == enhance_with_ai /\ KeyTruthy(groq_api_key)

Blankish(t) == Strip(t) = <<>>

----------------------------------------------------------------------------
(* Claims *)

\* C1: a top-level text field (name, profile, skills, activities) that is empty
\* or whitespace-only produces no heading and no paragraph for its section.
C1_BlankFieldNoSection ==
    op = "create" =>
        /\ Blankish(cv_data.name) => \A i \in DOMAIN doc : ~doc[i].centered
        /\ Blankish(cv_data.profile) => ~HasHeading(doc, "Profile")
        /\ Blankish(cv_data.skills) => ~HasHeading(doc, "Skills & Abilities")
        /\ Blankish(cv_data.activities) => ~HasHeading(doc, "Activities and Interests")

\* C2: the 'Experience' (resp. 'Education') heading and its trailing spacer are
\* emitted only if at least one entry of the list is rendered, also for the
\* lists main builds from untouched form groups.
C2_HeadingOnlyForRenderedEntries ==
    (op = "generate" /\ invoked) =>
        /\ HasHeading(doc, "Experience") =>
              \E i \in DOMAIN cv_data.experience :
                  ExperiencePasses(cv_data.experience[i])
        /\ HasHeading(doc, "Education") =>
              \E i \in DOMAIN cv_data.education :
                  EducationPasses(cv_data.education[i])

SpacersExpected(rendered) == (IF rendered > 0 THEN rendered - 1 ELSE 0) + 1

\* C3: the blank spacing paragraphs of an experience or education section are
\* exactly one between each two consecutive rendered entries plus one trailing
\* spacer, whatever the order of populated and empty entries.
C3_SpacersBetweenRenderedEntries ==
    (op = "create" /\ ~Enhancing) =>
        /\ HasHeading(doc, "Experience") =>
              Count(SectionBody(doc, "Experience"), IsBlankParagraph)
                = SpacersExpected(Count(cv_data.experience, ExperiencePasses))
        /\ HasHeading(doc, "Education") =>
              Count(SectionBody(doc, "Education"), IsBlankParagraph)
                = SpacersExpected(Count(cv_data.education, EducationPasses))

\* C4 as stated: with enhancement enabled and a credential present, at most 5
\* enhancer calls are made per document, however many entries the record has.
C4_AtMostFiveCalls ==
    (op = "create" /\ Enhancing) => Len(calls) <= 5

HasDescription(exp) == Truthy(exp.description)
HasDetails(edu) == Truthy(edu.details)

\* The texts of a record that the assembler routes through the enhancer.
EnhanceableTexts(cv) ==
    Cardinality({f \in {"profile", "skills", "activities"} : Truthy(cv[f])})
    + Count(cv.experience, HasDescription)
    + Count(cv.education, HasDetails)

CallKinds == [i \in DOMAIN calls |-> calls[i].kind]

KindRank(kind) ==
    CHOOSE i \in 1..5 :
        <<"profile", "experience", "education", "skills", "activities">>[i] = kind

\* C4 as amended: with enhancement enabled and a credential present, the
\* enhancer is called once per non-empty enhanceable text, in document order:
\* profile, each experience description, each education details, skills,
\* activities.  That is at most 3 + len(experience) + len(education) calls, and
\* each call issues at most one request.
C4_OneCallPerEnhanceableText ==
    (op = "create" /\ Enhancing) =>
        /\ Len(calls) = EnhanceableTexts(cv_data)
        /\ Len(calls) <= 3 + Len(cv_data.experience) + Len(cv_data.education)
        /\ Len(requests) <= Len(calls)
        /\ \A i \in DOMAIN calls : \A j \in DOMAIN calls :
              i < j => KindRank(calls[i].kind) <= KindRank(calls[j].kind)
        /\ \A k \in {"profile", "skills", "activities"} :
              Count(CallKinds, LAMBDA x : x = k) <= 1

C4_Witness ==
    /\ op = "create"
    /\ Enhancing
    /\ Len(calls) > 5
    /\ Len(cv_data.experience) = 2

\* C5: if the external request fails in any way (non-success status, network
\* error, timeout, success status with a malformed payload), enhance_with_groq
\* returns the original text, raises nothing and issues no second request; no
\* failure of the service makes create_cv_document raise.
C5_FailureFallsBack ==
    /\ (op = "enhance" /\ KeyTruthy(groq_api_key) /\ Failed(responses[1])) =>
          /\ result = text
          /\ ~raised
          /\ Len(requests) <= 1
    /\ op = "create" => ~raised

C5_Witness ==
    /\ op = "enhance"
    /\ KeyTruthy(groq_api_key)
    /\ ~Blankish(text)
    /\ responses[1] = MalformedResponse
    /\ Len(requests) = 1
    /\ result = text

\* C6: with the credential absent or empty, or the text empty or
\* whitespace-only, enhance_with_groq returns the text unchanged and issues no
\* request; create_cv_document makes no enhancer call when enhancement is
\* disabled or the credential is absent.
C6_NoCallWithoutCredentialOrText ==
    /\ (op = "enhance" /\ (groq_api_key \in {"None", ""} \/ Blankish(text))) =>
          /\ result = text
          /\ requests = <<>>
    /\ (op = "create" /\ (~enhance_with_ai \/ groq_api_key \in {"None", ""})) =>
          /\ calls = <<>>
          /\ requests = <<>>

C6_Witness ==
    /\ op = "enhance"
    /\ groq_api_key = "k"
    /\ text = <<" ">>
    /\ result = text
    /\ requests = <<>>

RequiredFields == {"name", "profile", "skills"}

MissingFields(cv) == {f \in RequiredFields : cv[f] = <<>>}

\* The words by which a message could name a required field.
FieldWords ==
    [name |-> {"name", "Name"},
     profile |-> {"profile", "Profile", "Summary"},
     skills |-> {"skills", "Skills", "Abilities"}]

FieldsNamed(msg) ==
    {f \in RequiredFields : \E i \in DOMAIN msg : msg[i] \in FieldWords[f]}

\* C7 as stated: when a required field is missing, create_cv_document is not
\* invoked and the validation error names the missing field(s).
C7_ErrorNamesMissingFields ==
    (op = "generate" /\ MissingFields(cv_data) # {}) =>
        /\ ~invoked
        /\ MissingFields(cv_data) \subseteq FieldsNamed(message)

\* C7 as amended: when a required field is missing, create_cv_document is not
\* invoked, no document is produced and the one generic validation error is
\* shown, which names no field.
C7_GenericErrorBeforeAssembly ==
    (op = "generate" /\ MissingFields(cv_data) # {}) =>
        /\ ~invoked
        /\ doc = <<>>
        /\ calls = <<>>
        /\ message = RequiredFieldsError
        /\ FieldsNamed(message) = {}

C7_Witness ==
    /\ op = "generate"
    /\ MissingFields(cv_data) = {"skills"}
    /\ ~invoked
    /\ message = RequiredFieldsError

\* The bold lines of the entries that have both parts, in input order.
RECURSIVE JobLines(_)
JobLines(exps) ==
    IF exps = <<>> THEN <<>>
    ELSE (IF Truthy(Head(exps).position) /\ Truthy(Head(exps).company)
          THEN <<Bold(Dash(Head(exps).position, Head(exps).company))>> ELSE <<>>)
         \o JobLines(Tail(exps))

RECURSIVE DegreeLines(_)
DegreeLines(edus) ==
    IF edus = <<>> THEN <<>>
    ELSE (IF Truthy(Head(edus).degree) /\ Truthy(Head(edus).institution)
          THEN <<Bold(Dash(Head(edus).degree, Head(edus).institution))>> ELSE <<>>)
         \o DegreeLines(Tail(edus))

\* C8: the sections emitted appear in the order name title, Profile,
\* Experience, Education, Skills & Abilities, Activities and Interests, none
\* repeated, with experience and education entries in their input order.
C8_FixedSectionOrder ==
    op = "create" =>
        LET titles == HeadingTitles(doc)
        IN /\ \A i \in DOMAIN titles : titles[i] \in {SectionOrder[k] : k \in DOMAIN SectionOrder}
           /\ \A i \in DOMAIN titles : \A j \in DOMAIN titles :
                 i < j => Rank(titles[i]) < Rank(titles[j])
           /\ \A i \in DOMAIN doc : doc[i].centered => i = 1
           /\ SelectSeq(SectionBody(doc, "Experience"), IsBold)
                = JobLines(cv_data.experience)
           /\ SelectSeq(SectionBody(doc, "Education"), IsBold)
                = DegreeLines(cv_data.education)

C8_Witness ==
    /\ op = "create"
    /\ Truthy(cv_data.name)
    /\ HeadingTitles(doc) = SectionOrder
    /\ Len(cv_data.experience) = 2
    /\ cv_data.experience[1] # cv_data.experience[2]
    /\ Len(cv_data.education) = 2
    /\ cv_data.education[1] # cv_data.education[2]

Carries(p, fields) == p.text # <<>> /\ \E t \in fields : p.text = t

\* C9: every experience entry passing the emptiness check causes at least one
\* non-blank paragraph carrying its data to be emitted, and likewise every
\* education entry; an entry with only a position is not silently dropped.
C9_PassingEntryIsRendered ==
    (op = "create" /\ ~Enhancing) =>
        /\ \A i \in DOMAIN cv_data.experience :
              LET e == cv_data.experience[i]
              IN ExperiencePasses(e) =>
                    \E k \in DOMAIN SectionBody(doc, "Experience") :
                        Carries(SectionBody(doc, "Experience")[k],
                                {e.position, e.company, e.duration,
                                 e.description, Dash(e.position, e.company)})
        /\ \A i \in DOMAIN cv_data.education :
              LET e == cv_data.education[i]
              IN EducationPasses(e) =>
                    \E k \in DOMAIN SectionBody(doc, "Education") :
                        Carries(SectionBody(doc, "Education")[k],
                                {e.degree, e.institution, e.year, e.details,
                                 Dash(e.degree, e.institution)})

Presses ==
    {"add_experience", "remove_experience", "add_education", "remove_education"}

PressEffect ==
    /\ op' = "add_experience" =>
          /\ num_experiences' = num_experiences + 1
          /\ num_education' = num_education
    /\ op' = "remove_experience" =>
          /\ num_experiences' =
                IF num_experiences = 1 THEN 1 ELSE num_experiences - 1
          /\ num_education' = num_education
    /\ op' = "add_education" =>
          /\ num_education' = num_education + 1
          /\ num_experiences' = num_experiences
    /\ op' = "remove_education" =>
          /\ num_education' = IF num_education = 1 THEN 1 ELSE num_education - 1
          /\ num_experiences' = num_experiences
    /\ op' \notin Presses => UNCHANGED session

CountersHold ==
    /\ num_experiences >= 1
    /\ num_education >= 1
    /\ op = "generate" =>
          /\ Len(cv_data.experience) = num_experiences
          /\ Len(cv_data.education) = num_education

\* C10: after any sequence of Add/Remove Experience/Education presses,
\* num_experiences >= 1 and num_education >= 1; each press changes only its own
\* counter, by exactly one (a Remove at 1 changes nothing); and the lists
\* handed to create_cv_document have num_experiences and num_education entries.
C10_CountersAndLists == [](CountersHold) /\ [][PressEffect]_vars

C10_Witness ==
    /\ op = "generate"
    /\ invoked
    /\ num_experiences = 2
    /\ num_education = 1
    /\ Len(cv_data.experience) = 2
    /\ Len(cv_data.education) = 1

====
